---- MODULE Spec2Model ----
(***************************************************************************)
(* Model of the e-BEO dashboard (src/app.py): the percentile classifier,   *)
(* the label normalizer, the variable glossary, the sheet reshapers, the   *)
(* dataset builder and the filter steps of a render pass.                  *)
(*                                                                         *)
(* Conventions.                                                            *)
(*  - A Python str is a TLA+ string (a sequence of characters): Len, Head, *)
(*    Tail, SubSeq and \o are the sequence operators.                      *)
(*  - An optional value (None, NaN, pd.NA) is None == <<>>; a present      *)
(*    value v is Some(v) == <<v>>.                                         *)
(*  - A float is the integer numerator of a fraction over Resolution:     *)
(*    the percentile 69.5 is 139 when Resolution = 2.                      *)
(*  - The combining marks U+0301, U+0308 and U+0303 are written with the   *)
(*    Latin-1 characters "´", "¨" and "~", which stand for them here.     *)
(*  - TLC writes the strings of the states it queues on disk byte by     *)
(*    byte: a non-ASCII string read back is equal to what it was, but its  *)
(*    characters are not. The string operators are therefore applied to   *)
(*    the strings of the initial states and of their successors only, and  *)
(*    the strings of later states are compared by equality.                *)
(***************************************************************************)
EXTENDS Integers, Sequences, FiniteSets, TLC

VARIABLES
    pc,           \* position of the script or of the function call
    arg,          \* argument of the function under call
    ret,          \* value(s) the function returned
    workbook,     \* the Excel file: [abre, hojas]
    parts,        \* build_long_dataset's list of reshaped sheets
    data,         \* the loaded long table, None before and without a load
    error,        \* the exception that ended the script, "" when none
    clases_sel,   \* Clase multiselect
    sexos_sel,    \* Sexo multiselect
    area_sel,     \* Area selectbox, None when the pass stopped before it
    vars_sel,     \* Variable multiselect
    df_filtrado,  \* data after the Clase/Sexo filter
    df_area,      \* df_filtrado after the Area and Variable filters
    aviso         \* the warning of a pass that stopped on an empty table

vars == <<pc, arg, ret, workbook, parts, data, error, clases_sel, sexos_sel,
          area_sel, vars_sel, df_filtrado, df_area, aviso>>

llamada == <<arg, ret>>

app == <<workbook, parts, data, error, clases_sel, sexos_sel, area_sel,
         vars_sel, df_filtrado, df_area, aviso>>

-----------------------------------------------------------------------------
(* Bounds of the model.                                                    *)

\* Floats are multiples of 1/Resolution.
Resolution == 2

\* Largest percentile given to the classifier (valid data ends at 99).
MaxPercentil == 150

\* The classifier is given percentiles down to -MaxNegativo.
MaxNegativo == 5

\* Longest label given to normalize_var.
MaxLen == 3

-----------------------------------------------------------------------------
(* Optional values and strings.                                            *)

None == <<>>

Some(v) == <<v>>

\* str.find from position i: first position of sub in s, 0 if none.
Find(sub, s, i) ==
    LET At(k) == SubSeq(s, k, k + Len(sub) - 1) = sub
        Hits == {k \in i..(Len(s) - Len(sub) + 1) : At(k)}
    IN  IF Hits = {} THEN 0 ELSE CHOOSE k \in Hits : \A j \in Hits : k <= j

\* Position of character c in string s at or after position i, 0 if none.
IndexOf(c, s, i) == Find(c, s, i)

LowerChars == "abcdefghijklmnopqrstuvwxyzáéíóúüñ"

UpperChars == "ABCDEFGHIJKLMNOPQRSTUVWXYZÁÉÍÓÚÜÑ"

UpperChar(c) ==
    LET i == IndexOf(c, LowerChars, 1)
    IN  IF i = 0 THEN c ELSE SubSeq(UpperChars, i, i)

LowerChar(c) ==
    LET i == IndexOf(c, UpperChars, 1)
    IN  IF i = 0 THEN c ELSE SubSeq(LowerChars, i, i)

RECURSIVE Upper(_)
\* str.upper, character by character
Upper(s) ==
    IF s = "" THEN ""
    ELSE IF Len(s) = 1 THEN UpperChar(s)
    ELSE Upper(SubSeq(s, 1, Len(s) \div 2)) \o Upper(SubSeq(s, Len(s) \div 2 + 1, Len(s)))

RECURSIVE Lower(_)
\* str.lower, character by character
Lower(s) ==
    IF s = "" THEN ""
    ELSE IF Len(s) = 1 THEN LowerChar(s)
    ELSE Lower(SubSeq(s, 1, Len(s) \div 2)) \o Lower(SubSeq(s, Len(s) \div 2 + 1, Len(s)))

\* Characters str.strip and str.split take for whitespace.
IsSpace(c) == c \in {" ", "\t"}

RECURSIVE LStrip(_)
LStrip(s) == IF s # "" /\ IsSpace(Head(s)) THEN LStrip(Tail(s)) ELSE s

RECURSIVE RStrip(_)
RStrip(s) ==
    IF s # "" /\ IsSpace(SubSeq(s, Len(s), Len(s)))
    THEN RStrip(SubSeq(s, 1, Len(s) - 1))
    ELSE s

\* str.strip
Strip(s) == RStrip(LStrip(s))

\* str.startswith
StartsWith(s, prefix) ==
    Len(prefix) <= Len(s) /\ SubSeq(s, 1, Len(prefix)) = prefix

\* sub in s
Contains(sub, s) == Find(sub, s, 1) # 0

RECURSIVE SplitWs(_, _, _)
\* str.split(): the words of s, with word cur begun and words acc done.
SplitWs(s, cur, acc) ==
    LET done == IF cur # "" THEN Append(acc, cur) ELSE acc
    IN  IF s = "" THEN done
        ELSE IF IsSpace(Head(s)) THEN SplitWs(Tail(s), "", done)
        ELSE SplitWs(Tail(s), cur \o Head(s), acc)

RECURSIVE Join(_, _)
\* sep.join(ws)
Join(sep, ws) ==
    IF Len(ws) = 0 THEN ""
    ELSE IF Len(ws) = 1 THEN ws[1]
    ELSE ws[1] \o sep \o Join(sep, Tail(ws))

\* Characters with a canonical decomposition, their base characters and
\* their combining marks, position by position.
Precomposed == "áéíóúüñÁÉÍÓÚÜÑ"

BaseChars == "aeiouunAEIOUUN"

MarkChars == "´´´´´¨~´´´´´¨~"

\* unicodedata.normalize("NFD", c) of one character
NFDChar(c) ==
    LET i == IndexOf(c, Precomposed, 1)
    IN  IF i = 0 THEN c ELSE SubSeq(BaseChars, i, i) \o SubSeq(MarkChars, i, i)

\* unicodedata.category(c) == "Mn"
IsMn(c) == c \in {"´", "¨", "~"}

RECURSIVE NFD(_)
\* unicodedata.normalize("NFD", s), character by character
NFD(s) ==
    IF s = "" THEN ""
    ELSE IF Len(s) = 1 THEN NFDChar(s)
    ELSE NFD(SubSeq(s, 1, Len(s) \div 2)) \o NFD(SubSeq(s, Len(s) \div 2 + 1, Len(s)))

RECURSIVE DropMn(_)
\* "".join(ch for ch in s if unicodedata.category(ch) != "Mn")
DropMn(s) ==
    IF s = "" THEN ""
    ELSE IF Len(s) = 1 THEN (IF IsMn(s) THEN "" ELSE s)
    ELSE DropMn(SubSeq(s, 1, Len(s) \div 2)) \o DropMn(SubSeq(s, Len(s) \div 2 + 1, Len(s)))

RECURSIVE Replace1(_, _, _)
\* s.replace(old, new) for a one-character old
Replace1(s, old, new) ==
    IF s = "" THEN ""
    ELSE IF Len(s) = 1 THEN (IF s = old THEN new ELSE s)
    ELSE Replace1(SubSeq(s, 1, Len(s) \div 2), old, new)
             \o Replace1(SubSeq(s, Len(s) \div 2 + 1, Len(s)), old, new)

-----------------------------------------------------------------------------
(* clasificar_percentil                                                    *)

\* clasificar_percentil with p = int(p) in place of p = float(p): the fraction
\* of a group mean is cut before the comparison.
clasificar_percentil_truncado(p) ==
    IF p = None THEN None
    ELSE LET x == (p[1] \div Resolution) * Resolution
         IN  IF x <= 2 * Resolution THEN Some("Muy bajo")
             ELSE IF x <= 15 * Resolution THEN Some("Bajo")
             ELSE IF x <= 30 * Resolution THEN Some("Medio-bajo")
             ELSE IF x <= 69 * Resolution THEN Some("Medio")
             ELSE IF x <= 84 * Resolution THEN Some("Medio-alto")
             ELSE IF x <= 97 * Resolution THEN Some("Alto")
             ELSE Some("Muy alto")

\* clasificar_percentil that rejects a percentile outside 0..99.
clasificar_percentil_acotado(p) ==
    IF p = None THEN None
    ELSE LET x == p[1]
         IN  IF x < 0 \/ x > 99 * Resolution THEN None
             ELSE IF x <= 2 * Resolution THEN Some("Muy bajo")
             ELSE IF x <= 15 * Resolution THEN Some("Bajo")
             ELSE IF x <= 30 * Resolution THEN Some("Medio-bajo")
             ELSE IF x <= 69 * Resolution THEN Some("Medio")
             ELSE IF x <= 84 * Resolution THEN Some("Medio-alto")
             ELSE IF x <= 97 * Resolution THEN Some("Alto")
             ELSE Some("Muy alto")

\* p is optional; a present p is a numerator over Resolution.
clasificar_percentil(p) ==
    IF p = None THEN None
    ELSE LET x == p[1]
         IN  IF x <= 2 * Resolution THEN Some("Muy bajo")
             ELSE IF x <= 15 * Resolution THEN Some("Bajo")
             ELSE IF x <= 30 * Resolution THEN Some("Medio-bajo")
             ELSE IF x <= 69 * Resolution THEN Some("Medio")
             ELSE IF x <= 84 * Resolution THEN Some("Medio-alto")
             ELSE IF x <= 97 * Resolution THEN Some("Alto")
             ELSE Some("Muy alto")

orden_rangos ==
    <<"Muy bajo", "Bajo", "Medio-bajo", "Medio", "Medio-alto", "Alto", "Muy alto">>

-----------------------------------------------------------------------------
(* normalize_var                                                           *)

\* normalize_var that collapses the whitespace before it replaces the
\* separators.
normalize_var_colapsa_antes(s) ==
    IF s = None THEN ""
    ELSE LET s1 == Upper(Strip(s[1]))
             s2 == NFD(s1)
             s3 == DropMn(s2)
             s4 == Join(" ", SplitWs(s3, "", <<>>))
         IN  Replace1(Replace1(s4, "_", " "), "-", " ")

\* s is optional (None gives "").
normalize_var(s) ==
    IF s = None THEN ""
    ELSE LET s1 == Upper(Strip(s[1]))
             s2 == NFD(s1)
             s3 == DropMn(s2)
             s4 == Replace1(Replace1(s3, "_", " "), "-", " ")
         IN  Join(" ", SplitWs(s4, "", <<>>))

-----------------------------------------------------------------------------
(* The glossary: VARIABLE_INFO, ALIASES and get_variable_info.              *)

\* A dict is the sequence of its <<key, value>> items.
DictHas(d, k) == \E i \in 1..Len(d) : d[i][1] = k

\* d.get(k, None)
DictGet(d, k) ==
    IF DictHas(d, k)
    THEN Some(d[CHOOSE i \in 1..Len(d) : d[i][1] = k][2])
    ELSE None

VARIABLE_INFO == <<
    <<"Aptitud espacial",
      "Habilidad para imaginar y manipular mentalmente objetos " \o
      "(rotarlos, ubicarlos), orientarse y comprender relaciones " \o
      "espaciales.">>,
    <<"Aptitud numérica",
      "Habilidad para razonar con números: realizar operaciones " \o
      "y resolver problemas numéricos, interpretando información " \o
      "cuantitativa.">>,
    <<"Razonamiento abstracto",
      "Habilidad para detectar patrones y reglas lógicas en " \o
      "problemas nuevos o con estímulos abstractos.">>,
    <<"Aptitud verbal",
      "Habilidad para comprender y razonar con palabras; se " \o
      "relaciona con vocabulario y comprensión de ideas.">>,
    <<"Atención",
      "Velocidad para identificar información relevante e " \o
      "ignorar distractores en tareas visuales.">>,
    <<"Concentración",
      "Precisión del procesamiento visual, independiente de la " \o
      "velocidad.">>,
    <<"Aciertos netos (A-E)",
      "Eficacia visoperceptiva y atencional considerando " \o
      "aciertos y errores.">>,
    <<"Control impulsividad (ICI)",
      "Control del estilo de respuesta; refleja tendencia más " \o
      "impulsiva o más reflexiva.">>,
    <<"Errores",
      "Respuestas incorrectas en la tarea de atención. Pueden " \o
      "ser por comisión (marcar una opción que no corresponde) u " \o
      "omisión según el diseño del registro. Este indicador no " \o
      "se interpreta aislado: se integra con los aciertos para " \o
      "calcular la eficacia atencional global (por ejemplo, en " \o
      "aciertos netos A-E), combinando precisión y control del " \o
      "error.">>,
    <<"Índice de control de impulsividad",
      "Indicador que refleja el estilo de respuesta del " \o
      "estudiante. Integra aciertos y errores para estimar el " \o
      "grado de control en la toma de decisiones durante la " \o
      "tarea. Un índice más alto suele asociarse a un estilo más " \o
      "reflexivo y cuidadoso; un índice más bajo sugiere mayor " \o
      "impulsividad relativa (respuesta rápida con mayor costo " \o
      "de error).">>,
    <<"Pensamiento constructivo global (PCG)",
      "Indicador global de estilos de pensamiento que pueden " \o
      "facilitar o dificultar el afrontamiento eficaz de " \o
      "problemas cotidianos.">>,
    <<"Afrontamiento emocional",
      "Manejo de emociones negativas con autoaceptación, " \o
      "resiliencia y menor tendencia a la rumiación.">>,
    <<"Autoaceptación",
      "Autoestima y actitud favorable hacia uno mismo.">>,
    <<"Aus. de sobregeneralización",
      "Menor tendencia a concluir que un evento negativo implica " \o
      "que 'todo saldrá mal'.">>,
    <<"Aus. de hipersensibilidad",
      "Mayor tolerancia a críticas, incertidumbre y " \o
      "contratiempos.">>,
    <<"Aus. de rumiaciones",
      "Menor tendencia a quedarse enganchado a lo negativo.">>,
    <<"Afrontamiento conductual",
      "Estilo de pensamiento orientado a resolver problemas " \o
      "mediante acción eficaz.">>,
    <<"Pensamiento positivo",
      "Tendencia a interpretar situaciones de modo realista y " \o
      "favorable para actuar.">>,
    <<"Orientación a la acción",
      "Tendencia a actuar ante los problemas en vez de postergar.">>,
    <<"Responsabilidad",
      "Planificación, cuidado y cumplimiento en tareas y " \o
      "decisiones.">>,
    <<"Pensamiento mágico",
      "Tendencia a explicar hechos con supersticiones privadas o " \o
      "ideas no basadas en evidencia.">>,
    <<"Pensamiento categórico",
      "Tendencia a ver la realidad en blanco/negro, con baja " \o
      "tolerancia a matices.">>,
    <<"Pensamiento polarizado",
      "Componente de rigidez cognitiva tipo 'todo o nada'.">>,
    <<"Suspicacia",
      "Tendencia a desconfiar o interpretar intenciones " \o
      "negativas en otros.">>,
    <<"Intransigencia",
      "Dificultad para aceptar diferencias o puntos de vista " \o
      "alternativos.">>,
    <<"Pensamiento esotérico",
      "Tendencia a creer en fenómenos mágicos o paranormales.">>,
    <<"Creencias paranormales",
      "Creencia en fenómenos como clarividencia, lectura de " \o
      "mente, etc.">>,
    <<"Pensamiento supersticioso",
      "Creencia en supersticiones convencionales y agüeros.">>,
    <<"Optimismo ingenuo",
      "Optimismo poco realista; puede llevar a juicios o " \o
      "decisiones sin suficiente fundamento.">>,
    <<"Pensamiento exagerado",
      "Esperar éxitos encadenados tras un resultado favorable.">>,
    <<"Pensamiento estereotipado",
      "Creencias idealizadas o simplificadas sobre la realidad " \o
      "social.">>,
    <<"Ingenuidad",
      "Tendencia a asumir que los demás actuarán siempre con " \o
      "buenas intenciones.">>
>>

ALIASES == <<
    <<"ESPACIAL", "Aptitud espacial">>,
    <<"APTITUD ESPACIAL", "Aptitud espacial">>,
    <<"NUMERICO", "Aptitud numérica">>,
    <<"NUMERICO.", "Aptitud numérica">>,
    <<"APTITUD NUMERICA", "Aptitud numérica">>,
    <<"APTITUD NUMERICA (BAT)", "Aptitud numérica">>,
    <<"APTITUD NUMERICA (EFAI)", "Aptitud numérica">>,
    <<"RAZONAMIENTO ABSTRACTO", "Razonamiento abstracto">>,
    <<"ABSTRACTO", "Razonamiento abstracto">>,
    <<"VERBAL", "Aptitud verbal">>,
    <<"APTITUD VERBAL", "Aptitud verbal">>,
    <<"ATENCION", "Atención">>,
    <<"ATENCION (A)", "Atención">>,
    <<"A", "Atención">>,
    <<"CONCENTRACION", "Concentración">>,
    <<"CONCENTRACION (CON)", "Concentración">>,
    <<"CON", "Concentración">>,
    <<"ACIERTOS NETOS (A-E)", "Aciertos netos (A-E)">>,
    <<"ACIERTOS NETOS A-E", "Aciertos netos (A-E)">>,
    <<"A E", "Aciertos netos (A-E)">>,
    <<"ICI", "Control impulsividad (ICI)">>,
    <<"CONTROL IMPULSIVIDAD", "Control impulsividad (ICI)">>,
    <<"ERRORES", "Errores">>,
    <<"ERROR", "Errores">>,
    <<"E", "Errores">>,
    <<"INDICE DE CONTROL DE IMPULSIVIDAD", "Índice de control de impulsividad">>,
    <<"INDICE CONTROL IMPULSIVIDAD", "Índice de control de impulsividad">>,
    <<"CONTROL DE IMPULSIVIDAD", "Índice de control de impulsividad">>,
    <<"PCG", "Pensamiento constructivo global (PCG)">>
>>

FALLBACK == "Definición breve no configurada para esta etiqueta en el tablero."

\* The three sentences of the IPP-R branch.
FraseActividades(campo) == "Interés por las actividades típicas del **" \o campo \o "**."

FraseProfesiones(campo) == "Interés por profesiones representativas del **" \o campo \o "**."

FraseRelativo(campo) == "Interés relativo en el **" \o campo \o "**."

\* s.split(sep, 1) of an s that contains sep: <<before, after>> the first sep.
Split1(s, sep) ==
    LET i == Find(sep, s, 1)
    IN  <<SubSeq(s, 1, i - 1), SubSeq(s, i + Len(sep), Len(s))>>

\* area or ""
OrEmpty(area) == IF area = None THEN "" ELSE area[1]

\* The alias and glossary lookups and the fallback (lines 356-368).
BuscarEnGlosario(variable_str) ==
    LET key_norm == normalize_var(Some(variable_str))
        canonical == DictGet(ALIASES, key_norm)
    IN  IF canonical # None /\ canonical[1] # "" /\ DictHas(VARIABLE_INFO, canonical[1])
        THEN DictGet(VARIABLE_INFO, canonical[1])[1]
        ELSE IF DictHas(VARIABLE_INFO, variable_str)
        THEN DictGet(VARIABLE_INFO, variable_str)[1]
        ELSE FALLBACK

\* The IPP-R branch (lines 348-354).
FraseIPP(variable_str) ==
    LET campo == Split1(variable_str, " - ")[1]
        tipo == Split1(variable_str, " - ")[2]
        tipo_low == Lower(Strip(tipo))
    IN  IF StartsWith(tipo_low, "activ") THEN FraseActividades(campo)
        ELSE IF StartsWith(tipo_low, "prof") THEN FraseProfesiones(campo)
        ELSE FraseRelativo(campo)

\* get_variable_info that looks the label up in the alias table and the
\* glossary before it tries the IPP-R branch.
get_variable_info_glosario_primero(area, variable) ==
    LET area_ == OrEmpty(area)
        variable_str == IF variable # None THEN variable[1] ELSE ""
    IN  IF BuscarEnGlosario(variable_str) # FALLBACK
        THEN BuscarEnGlosario(variable_str)
        ELSE IF StartsWith(area_, "Orientación vocacional") /\ Contains(" - ", variable_str)
        THEN FraseIPP(variable_str)
        ELSE FALLBACK

\* get_variable_info without the exact-name lookup of lines 364-365.
get_variable_info_sin_exacto(area, variable) ==
    LET area_ == OrEmpty(area)
        variable_str == IF variable # None THEN variable[1] ELSE ""
        canonical == DictGet(ALIASES, normalize_var(Some(variable_str)))
    IN  IF StartsWith(area_, "Orientación vocacional") /\ Contains(" - ", variable_str)
        THEN FraseIPP(variable_str)
        ELSE IF canonical # None /\ canonical[1] # "" /\ DictHas(VARIABLE_INFO, canonical[1])
        THEN DictGet(VARIABLE_INFO, canonical[1])[1]
        ELSE FALLBACK

\* area and variable are optional strings.
get_variable_info(area, variable) ==
    LET area_ == OrEmpty(area)
        variable_str == IF variable # None THEN variable[1] ELSE ""
    IN  IF StartsWith(area_, "Orientación vocacional") /\ Contains(" - ", variable_str)
        THEN FraseIPP(variable_str)
        ELSE BuscarEnGlosario(variable_str)

\* The test of the glossary diagnostic block on one description.
SinDefinicion(info) == Contains("no configurada", Lower(info))

-----------------------------------------------------------------------------
(* Sheets, cells and the reshapers.                                        *)
(*                                                                         *)
(* A cell is [num |-> n] (a number), [txt |-> s] (a text) or [nan |-> TRUE]*)
(* (an empty cell). A sheet is [columns, rows]: the header labels (pairs   *)
(* <<outer, inner>> under a two-row header) and one sequence of cells per  *)
(* student. A table is a sequence of records with the fields Clase, Sexo,  *)
(* Variable, Puntuacion, Area (and Rango once it is added).                *)

Digits == "0123456789"

RECURSIVE DigitsValue(_)
\* The number a string of decimal digits writes.
DigitsValue(s) ==
    IF s = "" THEN 0
    ELSE DigitsValue(SubSeq(s, 1, Len(s) - 1)) * 10
             + (IndexOf(SubSeq(s, Len(s), Len(s)), Digits, 1) - 1)

IsDigits(s) == s # "" /\ \A i \in 1..Len(s) : IndexOf(SubSeq(s, i, i), Digits, 1) # 0

\* pd.to_numeric(errors='coerce') of a text: an integer literal parses, any
\* other text is NaN.
ParseNum(s) ==
    IF IsDigits(s) THEN Some(DigitsValue(s) * Resolution)
    ELSE IF StartsWith(s, "-") /\ IsDigits(Tail(s))
    THEN Some(0 - DigitsValue(Tail(s)) * Resolution)
    ELSE None

\* pd.to_numeric(errors='coerce') of one cell: an optional float.
to_numeric(cell) ==
    IF "num" \in DOMAIN cell THEN Some(cell.num * Resolution)
    ELSE IF "txt" \in DOMAIN cell THEN ParseNum(cell.txt)
    ELSE None

\* The value of a grouping cell: its text, absent for an empty cell.
GroupValue(cell) == IF "txt" \in DOMAIN cell THEN Some(cell.txt) ELSE None

\* Positions of the first column labelled name, 0 if none.
ColIndex(names, name) ==
    IF \E i \in 1..Len(names) : names[i] = name
    THEN CHOOSE i \in 1..Len(names) : names[i] = name /\ \A j \in 1..(i - 1) : names[j] # name
    ELSE 0

RECURSIVE Concat(_)
\* pd.concat(tables, ignore_index=True)
Concat(tables) == IF tables = <<>> THEN <<>> ELSE Head(tables) \o Concat(Tail(tables))

\* df.melt(id_vars, value_vars, 'Variable', 'Puntuacion'), the Area column
\* and the numeric coercion, on a frame whose column k is labelled names[k]
\* and holds column src[k] of the sheet's rows: for each value column, in
\* order, one record per row.
Melt(names, src, rows, value_idx, area) ==
    LET Group(row, name) ==
            IF ColIndex(names, name) = 0 THEN None
            ELSE GroupValue(row[src[ColIndex(names, name)]])
        OfColumn(k) ==
            [r \in 1..Len(rows) |->
                [Clase |-> Group(rows[r], "Clase"),
                 Sexo |-> Group(rows[r], "Sexo"),
                 Variable |-> names[k],
                 Puntuacion |-> to_numeric(rows[r][src[k]]),
                 Area |-> area]]
    IN  Concat([j \in 1..Len(value_idx) |-> OfColumn(value_idx[j])])

\* The positions k of 1..n that satisfy the test, in order.
RECURSIVE Positions(_, _)
Positions(n, Keep) ==
    IF n = 0 THEN <<>>
    ELSE Positions(n - 1, Keep) \o (IF n \in Keep THEN <<n>> ELSE <<>>)

PERSONAL == {"Numero lista", "NIA", "Nombre", "Apellidos"}

\* sheet_to_long without the rename of line 42.
sheet_to_long_sin_renombrar(df, area) ==
    LET names == df.columns
        base_cols == {k \in 1..Len(names) : names[k] \in {"Clase", "Sexo"}}
        value_cols == {k \in 1..Len(names) : names[k] \notin PERSONAL /\ k \notin base_cols}
    IN  Melt(names, [k \in 1..Len(names) |-> k], df.rows,
             Positions(Len(names), value_cols), area)

sheet_to_long(df, area) ==
    LET names == [k \in 1..Len(df.columns) |->
                     IF df.columns[k] = "Número lista" THEN "Numero lista"
                     ELSE df.columns[k]]
        base_cols == {k \in 1..Len(names) : names[k] \in {"Clase", "Sexo"}}
        value_cols == {k \in 1..Len(names) : names[k] \notin PERSONAL /\ k \notin base_cols}
    IN  Melt(names, [k \in 1..Len(names) |-> k], df.rows,
             Positions(Len(names), value_cols), area)

IPP_SHEET == "Orientación vocacional - IPP-R"

AREA_IPP == "Orientación vocacional (IPP-R)"

RECURSIVE DictPut(_, _, _)
\* d[k] = v on a dict kept as the sequence of its items: a key already there
\* keeps its place.
DictPut(d, k, v) ==
    IF d = <<>> THEN <<<<k, v>>>>
    ELSE IF Head(d)[1] = k THEN <<<<k, v>>>> \o Tail(d)
    ELSE <<Head(d)>> \o DictPut(Tail(d), k, v)

RECURSIVE DictPutAll(_, _)
DictPutAll(d, items) ==
    IF items = <<>> THEN d
    ELSE DictPutAll(DictPut(d, Head(items)[1], Head(items)[2]), Tail(items))

\* df is the sheet read with header=[0, 1]: its columns are <<outer, inner>>.
ipp_sheet_to_long(df) ==
    LET cols == df.columns
        base1 == {"Clase", "Número lista", "NIA", "Nombre", "Apellidos", "Sexo"}
        base_cols == {k \in 1..Len(cols) : cols[k][2] \in base1}
        var_cols == {k \in 1..Len(cols) : k \notin base_cols}
        BaseName(k) == IF cols[k][2] = "Número lista" THEN "Numero lista" ELSE cols[k][2]
        VarName(k) == cols[k][1] \o " - " \o cols[k][2]
        base_seq == Positions(Len(cols), base_cols)
        var_seq == Positions(Len(cols), var_cols)
        \* data: name -> column of df, base columns first
        datos == DictPutAll(
                     DictPutAll(<<>>, [j \in 1..Len(base_seq) |->
                                          <<BaseName(base_seq[j]), base_seq[j]>>]),
                     [j \in 1..Len(var_seq) |-> <<VarName(var_seq[j]), var_seq[j]>>])
        names == [k \in 1..Len(datos) |-> datos[k][1]]
        src == [k \in 1..Len(datos) |-> datos[k][2]]
        base_cols_simple == {k \in 1..Len(names) : names[k] \in {"Clase", "Sexo"}}
        value_cols == {k \in 1..Len(names) :
                          names[k] \notin PERSONAL /\ k \notin base_cols_simple}
    IN  Melt(names, src, df.rows, Positions(Len(names), value_cols), AREA_IPP)

-----------------------------------------------------------------------------
(* build_long_dataset                                                      *)

\* The standard sheets and their areas, in the order they are reshaped.
HOJAS_ESTANDAR == <<
    <<"Ap. intelectuales - EFAI 4", "Aptitudes intelectuales (EFAI 4)">>,
    <<"Ap. intelectuales - BAT 7-S", "Aptitudes intelectuales (BAT 7-S)">>,
    <<"Atención - CARAS-R, Test de Pe", "Atención (CARAS-R)">>,
    <<"Atención - BAT 7-S", "Atención (BAT 7-S)">>,
    <<"Inteligencia emocional - CTI", "Inteligencia emocional (CTI)">>
>>

\* Rows of tabla that satisfy the test, in order.
RECURSIVE Filtrar(_, _)
Filtrar(tabla, Keep) ==
    IF tabla = <<>> THEN <<>>
    ELSE (IF Head(tabla) \in Keep THEN <<Head(tabla)>> ELSE <<>>) \o Filtrar(Tail(tabla), Keep)

\* The cleaning of lines 137-139 that also takes a score of 0 for a code.
Limpiar_descarta_cero(big) ==
    LET anulada == [i \in 1..Len(big) |->
                       IF big[i].Puntuacion # None /\ big[i].Puntuacion[1] <= 0
                       THEN [big[i] EXCEPT !.Puntuacion = None]
                       ELSE big[i]]
    IN  Filtrar(anulada, {r \in {anulada[i] : i \in 1..Len(anulada)} : r.Puntuacion # None})

\* Lines 137-139: the scores are floats already; a negative score becomes
\* pd.NA, and the records without a score are dropped.
Limpiar(big) ==
    LET anulada == [i \in 1..Len(big) |->
                       IF big[i].Puntuacion # None /\ big[i].Puntuacion[1] < 0
                       THEN [big[i] EXCEPT !.Puntuacion = None]
                       ELSE big[i]]
    IN  Filtrar(anulada, {r \in {anulada[i] : i \in 1..Len(anulada)} : r.Puntuacion # None})

\* build_long_dataset that reshapes the sheets the workbook has and skips
\* the others.
build_long_dataset_omite_faltantes(xls) ==
    IF ~xls.abre THEN [ok |-> FALSE, error |-> "FileNotFoundError"]
    ELSE LET sheets == xls.hojas
             presentes == {k \in 1..Len(HOJAS_ESTANDAR) : DictHas(sheets, HOJAS_ESTANDAR[k][1])}
             orden == Positions(Len(HOJAS_ESTANDAR), presentes)
             std == [j \in 1..Len(orden) |->
                        sheet_to_long(DictGet(sheets, HOJAS_ESTANDAR[orden[j]][1])[1],
                                      HOJAS_ESTANDAR[orden[j]][2])]
             parts_ == IF DictHas(sheets, IPP_SHEET)
                       THEN Append(std, ipp_sheet_to_long(DictGet(sheets, IPP_SHEET)[1]))
                       ELSE std
         IN  [ok |-> TRUE, parts |-> parts_, big |-> Limpiar(Concat(parts_))]

\* xls is the workbook at the path: [abre, hojas]. The result is the table
\* (with the reshaped parts it was built from) or the exception raised.
build_long_dataset(xls) ==
    IF ~xls.abre THEN [ok |-> FALSE, error |-> "FileNotFoundError"]
    ELSE LET sheets == xls.hojas
         IN  IF \E k \in 1..Len(HOJAS_ESTANDAR) : ~DictHas(sheets, HOJAS_ESTANDAR[k][1])
             THEN [ok |-> FALSE, error |-> "KeyError"]
             ELSE IF ~DictHas(sheets, IPP_SHEET)
             THEN [ok |-> FALSE, error |-> "ValueError"]
             ELSE LET std == [k \in 1..Len(HOJAS_ESTANDAR) |->
                                 sheet_to_long(DictGet(sheets, HOJAS_ESTANDAR[k][1])[1],
                                               HOJAS_ESTANDAR[k][2])]
                      parts_ == Append(std, ipp_sheet_to_long(DictGet(sheets, IPP_SHEET)[1]))
                  IN  [ok |-> TRUE, parts |-> parts_, big |-> Limpiar(Concat(parts_))]

\* Lines 380-383 on one Sexo value.
NormalizarSexo(x) ==
    IF x # None /\ Upper(Strip(x[1])) = "M" THEN Some("Mujeres")
    ELSE IF x # None /\ Upper(Strip(x[1])) = "V" THEN Some("Hombres")
    ELSE x

\* Lines 379-386 with the Rango column taken from the row after: the band of
\* a record is that of another record's score.
Preparar_desalineado(tabla) ==
    [i \in 1..Len(tabla) |->
        [Clase |-> tabla[i].Clase,
         Sexo |-> NormalizarSexo(tabla[i].Sexo),
         Variable |-> tabla[i].Variable,
         Puntuacion |-> tabla[i].Puntuacion,
         Area |-> tabla[i].Area,
         Rango |-> clasificar_percentil(tabla[(i % Len(tabla)) + 1].Puntuacion)]]

\* Lines 379-386: the Sexo labels and the Rango column.
Preparar(tabla) ==
    [i \in 1..Len(tabla) |->
        [Clase |-> tabla[i].Clase,
         Sexo |-> NormalizarSexo(tabla[i].Sexo),
         Variable |-> tabla[i].Variable,
         Puntuacion |-> tabla[i].Puntuacion,
         Area |-> tabla[i].Area,
         Rango |-> clasificar_percentil(tabla[i].Puntuacion)]]

-----------------------------------------------------------------------------
(* The filters of a render pass (lines 427-474).                           *)

\* The values of a table's records.
Registros(tabla) == {tabla[i] : i \in 1..Len(tabla)}

\* sorted(data[col].dropna().unique()), as a set
Opciones(tabla, col) == {r[col][1] : r \in {x \in Registros(tabla) : x[col] # None}}

\* Lines 443-446: isin is false of an absent value.
FiltrarClaseSexo(tabla, cs, ss) ==
    Filtrar(tabla, {r \in Registros(tabla) :
                       /\ r.Clase # None /\ r.Clase[1] \in cs
                       /\ r.Sexo # None /\ r.Sexo[1] \in ss})

\* Line 461
FiltrarArea(tabla, a) == Filtrar(tabla, {r \in Registros(tabla) : r.Area = a})

\* Line 470
FiltrarVariables(tabla, vs) == Filtrar(tabla, {r \in Registros(tabla) : r.Variable \in vs})

AVISO_FILTROS == "No hay datos con los filtros actuales (Clase / Sexo)."

AVISO_VARIABLES == "No hay datos para las variables seleccionadas."

-----------------------------------------------------------------------------
(* Idle values of the variables a specification does not use.              *)

AppIdle ==
    /\ workbook = None
    /\ parts = <<>>
    /\ data = None
    /\ error = ""
    /\ clases_sel = {}
    /\ sexos_sel = {}
    /\ area_sel = None
    /\ vars_sel = {}
    /\ df_filtrado = None
    /\ df_area = None
    /\ aviso = ""

-----------------------------------------------------------------------------
(* Calls of clasificar_percentil on one input.                             *)

Percentiles ==
    {None} \cup
    {Some(x) : x \in (0 - MaxNegativo * Resolution) .. (MaxPercentil * Resolution)}

InitClasificar ==
    /\ pc = "llamada"
    /\ arg \in Percentiles
    /\ ret = None
    /\ AppIdle

Clasificar ==
    /\ pc = "llamada"
    /\ ret' = clasificar_percentil(arg)
    /\ pc' = "retorno"
    /\ UNCHANGED <<arg, app>>

NextClasificar == Clasificar

SpecClasificar == InitClasificar /\ [][NextClasificar]_vars

-----------------------------------------------------------------------------
(* Calls of normalize_var on a label and then on its own result.           *)

NormAlphabet == {"a", "B", "é", "Ñ", "´", " ", "\t", "_", "-"}

RECURSIVE Strs(_)
\* The strings over NormAlphabet of length at most n.
Strs(n) ==
    IF n = 0 THEN {""}
    ELSE LET P == Strs(n - 1) IN P \cup {p \o c : p \in P, c \in NormAlphabet}

InitNormalize ==
    /\ pc = "llamada"
    /\ arg \in {None} \cup {Some(s) : s \in Strs(MaxLen)}
    /\ ret = <<>>
    /\ AppIdle

Normalizar ==
    /\ pc = "llamada"
    /\ ret' = <<normalize_var(arg)>>
    /\ pc' = "retorno"
    /\ UNCHANGED <<arg, app>>

Renormalizar ==
    /\ pc = "retorno"
    /\ ret' = Append(ret, normalize_var(Some(ret[1])))
    /\ pc' = "retorno2"
    /\ UNCHANGED <<arg, app>>

NextNormalize == Normalizar \/ Renormalizar

SpecNormalize == InitNormalize /\ [][NextNormalize]_vars

-----------------------------------------------------------------------------
(* Calls of get_variable_info on one (area, variable), followed by the     *)
(* test the glossary diagnostic block makes on the description.            *)

AreasMuestra ==
    {None, Some(""), Some(AREA_IPP), Some("Orientación vocacional"),
     Some("orientación vocacional (IPP-R)"), Some(" Orientación vocacional (IPP-R)"),
     Some("Aptitudes intelectuales (EFAI 4)"), Some("Atención (CARAS-R)"),
     Some("Inteligencia emocional (CTI)")}

CamposMuestra == {"Campo científico", "A", "", "Campo no configurada", "Errores"}

FacetasMuestra ==
    {"Actividades", "Profesiones", "ACTIVIDADES", "profesión", " actividades ",
     "Total", "E", "", "B - Actividades", "Activ", "Pro"}

EtiquetasMuestra ==
    {None} \cup
    {Some(VARIABLE_INFO[i][1]) : i \in 1..Len(VARIABLE_INFO)} \cup
    {Some(ALIASES[i][1]) : i \in 1..Len(ALIASES)} \cup
    {Some(c \o " - " \o f) : c \in CamposMuestra, f \in FacetasMuestra} \cup
    {Some(l) : l \in {"", "Espacial", "Numérico", "aptitud_numérica", "Atención (A)",
                      "A-E", "A -E", "pcg", "Desconocida", "Errores ", "errores",
                      "Autoaceptacion", "AUTOACEPTACIÓN", "Actividades",
                      "Etiqueta no configurada", "Campo científico-Actividades"}}

InitInfo ==
    /\ pc = "llamada"
    /\ arg \in [area : AreasMuestra, variable : EtiquetasMuestra]
    /\ ret = None
    /\ AppIdle

Describir ==
    /\ pc = "llamada"
    /\ ret' = [info |-> get_variable_info(arg.area, arg.variable)]
    /\ pc' = "retorno"
    /\ UNCHANGED <<arg, app>>

Diagnosticar ==
    /\ pc = "retorno"
    /\ ret' = [info |-> ret.info, sin_def |-> SinDefinicion(ret.info)]
    /\ pc' = "diagnostico"
    /\ UNCHANGED <<arg, app>>

NextInfo == Describir \/ Diagnosticar

SpecInfo == InitInfo /\ [][NextInfo]_vars

-----------------------------------------------------------------------------
(* The dashboard: the load of the workbook, then render passes with the    *)
(* selections of the four filter widgets.                                  *)

\* At most this many required sheets are missing from a workbook.
MaxFaltan == 1

\* The sheets of the sample workbooks: name, the two value columns (outer and
\* inner label for the two-row header) and the scores of the base row.
HOJAS_MUESTRA == <<
    [nombre |-> HOJAS_ESTANDAR[1][1], v1 |-> "Espacial", v2 |-> "Verbal", p1 |-> 2, p2 |-> 15],
    [nombre |-> HOJAS_ESTANDAR[2][1], v1 |-> "Numérico", v2 |-> "Abstracto", p1 |-> 16, p2 |-> 30],
    [nombre |-> HOJAS_ESTANDAR[3][1], v1 |-> "Aciertos netos (A-E)", v2 |-> "ICI", p1 |-> 31, p2 |-> 69],
    [nombre |-> HOJAS_ESTANDAR[4][1], v1 |-> "Atención (A)", v2 |-> "Concentración (CON)", p1 |-> 70, p2 |-> 84],
    [nombre |-> HOJAS_ESTANDAR[5][1], v1 |-> "PCG", v2 |-> "Autoaceptación", p1 |-> 85, p2 |-> 97],
    [nombre |-> IPP_SHEET, v1 |-> <<"Campo científico", "Actividades">>,
     v2 |-> <<"Campo científico", "Profesiones">>, p1 |-> 98, p2 |-> 99]
>>

\* Header label of column k of sheet h: under the two-row header a base
\* column has no outer label and pandas names it "Unnamed: <k-1>_level_0".
Etiqueta(h, k, label) ==
    IF h = Len(HOJAS_MUESTRA)
    THEN <<"Unnamed: " \o SubSeq(Digits, k, k) \o "_level_0", label>>
    ELSE label

\* A sheet of two students, the first with the given cells and the second
\* with the base ones: lista is the label of the roster-number column, ""
\* for a sheet without the four personal columns.
HojaMuestra(h, lista, clase, sexo, c1, c2) ==
    LET m == HOJAS_MUESTRA[h]
        personales == << <<lista, [num |-> 7], [num |-> 8]>>,
                         <<"NIA", [num |-> 1001], [num |-> 1002]>>,
                         <<"Nombre", [txt |-> "Ana"], [txt |-> "Luis"]>>,
                         <<"Apellidos", [txt |-> "Ruiz"], [txt |-> "Gil"]>> >>
        base == << <<"Clase", clase, [txt |-> "A"]>> >>
                    \o (IF lista = "" THEN <<>> ELSE personales)
                    \o << <<"Sexo", sexo, [txt |-> "M"]>> >>
        campos == [k \in 1..Len(base) |-> <<Etiqueta(h, k, base[k][1]), base[k][2], base[k][3]>>]
                      \o << <<m.v1, c1, [num |-> m.p1]>>, <<m.v2, c2, [num |-> m.p2]>> >>
    IN  [columns |-> [k \in 1..Len(campos) |-> campos[k][1]],
         rows |-> << [k \in 1..Len(campos) |-> campos[k][2]],
                     [k \in 1..Len(campos) |-> campos[k][3]] >>]

HojaBase(h) ==
    HojaMuestra(h, "Número lista", [txt |-> "A"], [txt |-> "M"],
                [num |-> HOJAS_MUESTRA[h].p1], [num |-> HOJAS_MUESTRA[h].p2])

\* The base workbook with sheet f replaced by hoja.
LibroCon(f, hoja) ==
    [abre |-> TRUE,
     hojas |-> [h \in 1..Len(HOJAS_MUESTRA) |->
                   <<HOJAS_MUESTRA[h].nombre, IF h = f THEN hoja ELSE HojaBase(h)>>]]

\* The base workbook without the sheets of faltan.
LibroSin(faltan) ==
    [abre |-> TRUE,
     hojas |-> LET quedan == Positions(Len(HOJAS_MUESTRA), (1..Len(HOJAS_MUESTRA)) \ faltan)
               IN  [j \in 1..Len(quedan) |->
                       <<HOJAS_MUESTRA[quedan[j]].nombre, HojaBase(quedan[j])>>]]

ClasesMuestra == {[txt |-> "A"], [txt |-> "B"], [nan |-> TRUE]}

SexosMuestra == {[txt |-> "M"], [txt |-> "v "], [nan |-> TRUE]}

CeldasMuestra ==
    {[num |-> 0], [num |-> 50], [num |-> 0 - 999], [txt |-> "n/a"], [txt |-> "12"],
     [nan |-> TRUE]}

Libros ==
    \* one sheet with another header
    {LibroCon(f, HojaMuestra(f, lista, [txt |-> "A"], [txt |-> "M"],
                             [num |-> HOJAS_MUESTRA[f].p1], [num |-> HOJAS_MUESTRA[f].p2])) :
        f \in 1..Len(HOJAS_MUESTRA), lista \in {"Numero lista", ""}}
    \cup
    \* one sheet with another student
    {LibroCon(f, HojaMuestra(f, "Número lista", clase, sexo, c1, c2)) :
        f \in 1..Len(HOJAS_MUESTRA), clase \in ClasesMuestra, sexo \in SexosMuestra,
        c1 \in CeldasMuestra, c2 \in CeldasMuestra}
    \cup
    \* a file that does not open, and workbooks with sheets missing
    {[abre |-> FALSE, hojas |-> <<>>]}
    \cup
    {LibroSin(faltan) :
        faltan \in {F \in SUBSET (1..Len(HOJAS_MUESTRA)) :
                       Cardinality(F) >= 1 /\ Cardinality(F) <= MaxFaltan}}

Init ==
    /\ pc = "inicio"
    /\ workbook \in Libros
    /\ parts = <<>>
    /\ data = None
    /\ error = ""
    /\ clases_sel = {}
    /\ sexos_sel = {}
    /\ area_sel = None
    /\ vars_sel = {}
    /\ df_filtrado = None
    /\ df_area = None
    /\ aviso = ""
    /\ arg = None
    /\ ret = None

\* Lines 375-386: the load, which an exception ends.
Cargar ==
    /\ pc = "inicio"
    /\ LET r == build_long_dataset(workbook)
       IN  IF r.ok
           THEN /\ parts' = r.parts
                /\ data' = Some(Preparar(r.big))
                /\ error' = ""
                /\ pc' = "cargado"
           ELSE /\ parts' = <<>>
                /\ data' = None
                /\ error' = r.error
                /\ pc' = "fatal"
    /\ UNCHANGED <<workbook, clases_sel, sexos_sel, area_sel, vars_sel, df_filtrado,
                   df_area, aviso, llamada>>

\* Lines 427-474: one pass of the script over the loaded table with the
\* selections cs, ss, a and vs; st.stop() ends it on an empty table.
Presentar ==
    /\ pc = "cargado"
    /\ \E cs \in SUBSET Opciones(data[1], "Clase"), ss \in SUBSET Opciones(data[1], "Sexo") :
        LET filtrado == FiltrarClaseSexo(data[1], cs, ss)
        IN  /\ clases_sel' = cs
            /\ sexos_sel' = ss
            /\ df_filtrado' = Some(filtrado)
            /\ IF filtrado = <<>>
               THEN /\ aviso' = AVISO_FILTROS
                    /\ area_sel' = None
                    /\ vars_sel' = {}
                    /\ df_area' = None
               ELSE \E a \in {r.Area : r \in Registros(filtrado)} :
                        LET de_area == FiltrarArea(filtrado, a)
                        IN  \E vs \in SUBSET {r.Variable : r \in Registros(de_area)} :
                                /\ area_sel' = Some(a)
                                /\ vars_sel' = vs
                                /\ df_area' = Some(FiltrarVariables(de_area, vs))
                                /\ aviso' = IF FiltrarVariables(de_area, vs) = <<>>
                                            THEN AVISO_VARIABLES ELSE ""
    /\ pc' = "presentado"
    /\ UNCHANGED <<workbook, parts, data, error, llamada>>

\* A change of a widget runs the script again from its first line: the
\* names of the pass are unbound, and the load is answered by st.cache_data.
Reejecutar ==
    /\ pc = "presentado"
    /\ pc' = "cargado"
    /\ clases_sel' = {}
    /\ sexos_sel' = {}
    /\ area_sel' = None
    /\ vars_sel' = {}
    /\ df_filtrado' = None
    /\ df_area' = None
    /\ aviso' = ""
    /\ UNCHANGED <<workbook, parts, data, error, llamada>>

Next == Cargar \/ Presentar \/ Reejecutar

Spec == Init /\ [][Next]_vars

-----------------------------------------------------------------------------
(* Table 2, the distribution of bands by Sexo and Variable (lines 678-688), *)
(* computed on tables of the shape of df_area.                             *)

\* x.round(1) of x = num / den >= 0, in tenths: the nearest tenth, the even
\* one on a tie.
Redondear1(num, den) ==
    LET q == (num * 10) \div den
        r == (num * 10) % den
    IN  IF 2 * r < den THEN q
        ELSE IF 2 * r > den THEN q + 1
        ELSE IF q % 2 = 0 THEN q ELSE q + 1

\* groupby(['Sexo', 'Variable', 'Rango']).size() of one key.
Conteo(tabla, sexo, variable, rango) ==
    Cardinality({i \in 1..Len(tabla) :
                    /\ tabla[i].Sexo = Some(sexo)
                    /\ tabla[i].Variable = variable
                    /\ tabla[i].Rango = Some(rango)})

\* The keys of the groups: groupby leaves the records with an absent key out.
ClavesRango(tabla) ==
    {<<r.Sexo[1], r.Variable, r.Rango[1]>> :
        r \in {x \in Registros(tabla) : x.Sexo # None /\ x.Rango # None}}

\* Table 2 with the percentage taken over the rows of the whole table.
tabla_rangos_sexo_sobre_total(tabla) ==
    LET total == Cardinality({i \in 1..Len(tabla) :
                                 tabla[i].Sexo # None /\ tabla[i].Rango # None})
    IN  {[Sexo |-> k[1], Variable |-> k[2], Rango |-> k[3],
          n |-> Conteo(tabla, k[1], k[2], k[3]),
          porcentaje |-> Redondear1(Conteo(tabla, k[1], k[2], k[3]) * 100, total)] :
            k \in ClavesRango(tabla)}

\* The rows of Table 2, one per (Sexo, Variable, Rango) with records: n and
\* porcentaje, this one in tenths of a percent. The rows' order is left out.
tabla_rangos_sexo(tabla) ==
    LET suma(k) == Cardinality({i \in 1..Len(tabla) :
                                   /\ tabla[i].Sexo = Some(k[1])
                                   /\ tabla[i].Variable = k[2]
                                   /\ tabla[i].Rango # None})
    IN  {[Sexo |-> k[1], Variable |-> k[2], Rango |-> k[3],
          n |-> Conteo(tabla, k[1], k[2], k[3]),
          porcentaje |-> Redondear1(Conteo(tabla, k[1], k[2], k[3]) * 100, suma(k))] :
            k \in ClavesRango(tabla)}

\* At most this many records in the group whose split is drawn.
MaxGrupo == 6

\* A percentile of each band, in the order of orden_rangos.
PERCENTIL_DE_BANDA == <<2, 15, 30, 69, 84, 97, 99>>

\* A record of df_area of the given Sexo with a score of band b.
RegistroDeBanda(sexo, b) ==
    [Clase |-> Some("A"),
     Sexo |-> Some(sexo),
     Variable |-> "Espacial",
     Puntuacion |-> Some(PERCENTIL_DE_BANDA[b] * Resolution),
     Area |-> HOJAS_ESTANDAR[1][2],
     Rango |-> clasificar_percentil(Some(PERCENTIL_DE_BANDA[b] * Resolution))]

RECURSIVE Repartos(_, _)
\* The splits of at most t records across k bands: how many fall in each.
Repartos(k, t) ==
    IF k = 0 THEN {<<>>}
    ELSE UNION {{Append(c, x) : c \in Repartos(k - 1, t - x)} : x \in 0..t}

RECURSIVE Copias(_, _)
Copias(r, n) == IF n = 0 THEN <<>> ELSE <<r>> \o Copias(r, n - 1)

\* The records of a split, of the given Sexo.
RegistrosDeReparto(sexo, c) ==
    Concat([b \in 1..Len(c) |-> Copias(RegistroDeBanda(sexo, b), c[b])])

\* Records of another group in the same table.
OtrosMuestra ==
    {<<>>,
     <<RegistroDeBanda("Hombres", 4)>>,
     <<RegistroDeBanda("Hombres", 4), RegistroDeBanda("Hombres", 6)>>}

InitRangos ==
    /\ pc = "llamada"
    /\ arg \in {RegistrosDeReparto("Mujeres", c) \o otros :
                    c \in {d \in Repartos(Len(orden_rangos), MaxGrupo) :
                              \E b \in 1..Len(d) : d[b] > 0},
                    otros \in OtrosMuestra}
    /\ ret = None
    /\ AppIdle

Tabular ==
    /\ pc = "llamada"
    /\ ret' = tabla_rangos_sexo(arg)
    /\ pc' = "retorno"
    /\ UNCHANGED <<arg, app>>

NextRangos == Tabular

SpecRangos == InitRangos /\ [][NextRangos]_vars

-----------------------------------------------------------------------------
(* Properties of clasificar_percentil (SpecClasificar).                    *)

\* Position of a band in orden_rangos.
RangoIdx(b) == CHOOSE i \in 1..Len(orden_rangos) : orden_rangos[i] = b

\* C1: for every present percentile p in 0..99, integer or not,
\* clasificar_percentil returns the band given by the inclusive upper bounds
\* 2, 15, 30, 69, 84, 97 (above 97: "Muy alto"); no smaller percentile gets a
\* higher band; an absent input gives an absent band.
C1_BandasPorUmbral ==
    pc = "retorno" =>
        /\ arg = None => ret = None
        /\ (arg # None /\ arg[1] >= 0 /\ arg[1] <= 99 * Resolution) =>
            LET x == arg[1]
                R == Resolution
            IN  /\ ret # None
                /\ x <= 2 * R => ret[1] = "Muy bajo"
                /\ (2 * R < x /\ x <= 15 * R) => ret[1] = "Bajo"
                /\ (15 * R < x /\ x <= 30 * R) => ret[1] = "Medio-bajo"
                /\ (30 * R < x /\ x <= 69 * R) => ret[1] = "Medio"
                /\ (69 * R < x /\ x <= 84 * R) => ret[1] = "Medio-alto"
                /\ (84 * R < x /\ x <= 97 * R) => ret[1] = "Alto"
                /\ x > 97 * R => ret[1] = "Muy alto"
                /\ \A q \in 0..x :
                       RangoIdx(clasificar_percentil(Some(q))[1]) <= RangoIdx(ret[1])

\* C1 witness: a percentile strictly between 69 and 70 was classified.
C1_Witness ==
    /\ pc = "retorno"
    /\ arg = Some(69 * Resolution + 1)
    /\ ret = Some("Medio-alto")

\* C7 as stated: 98, 99, 100, 150 and -5 are all classified "Muy alto".
C7_Original ==
    (pc = "retorno" /\ arg \in {Some(n * Resolution) : n \in {98, 99, 100, 150, 0 - 5}})
        => ret = Some("Muy alto")

\* C7 as amended: every present input, in 0..99 or not, gets a band (no
\* bounds failure); 98, 99, 100 and 150 are classified "Muy alto", and -5,
\* being at most 2, is classified "Muy bajo".
C7_FueraDeRango ==
    pc = "retorno" =>
        /\ arg # None =>
            /\ ret # None
            /\ \E i \in 1..Len(orden_rangos) : ret[1] = orden_rangos[i]
        /\ arg \in {Some(n * Resolution) : n \in {98, 99, 100, 150}}
               => ret = Some("Muy alto")
        /\ arg = Some((0 - 5) * Resolution) => ret = Some("Muy bajo")

\* C7 witness: 150 was classified.
C7_Witness ==
    /\ pc = "retorno"
    /\ arg = Some(150 * Resolution)
    /\ ret = Some("Muy alto")

-----------------------------------------------------------------------------
(* Properties of normalize_var (SpecNormalize).                            *)

\* The characters of s.
Chars(s) == {SubSeq(s, i, i) : i \in 1..Len(s)}

\* C8: normalize_var returns for every input (None gives ""), and applying
\* it to its own result changes nothing; the result is upper-case, without
\* combining marks, underscores or hyphens, and without leading, trailing or
\* repeated whitespace.
C8_Idempotente ==
    /\ pc # "llamada" =>
        LET n == ret[1]
        IN  /\ arg = None => n = ""
            /\ \A c \in Chars(n) : UpperChar(c) = c /\ ~IsMn(c) /\ c \notin {"_", "-"}
            /\ n = Strip(n)
            /\ \A i \in 1..(Len(n) - 1) :
                   ~(IsSpace(SubSeq(n, i, i)) /\ IsSpace(SubSeq(n, i + 1, i + 1)))
    /\ pc = "retorno2" => ret[2] = ret[1]

\* C8 witness: a label with an accent and a separator was normalized twice.
C8_Witness ==
    /\ pc = "retorno2"
    /\ arg = Some("é_a")
    /\ ret = <<"E A", "E A">>

-----------------------------------------------------------------------------
(* Properties of get_variable_info (SpecInfo).                             *)

\* The call is one of the IPP-R branch: the area denotes the vocational area
\* and the variable holds the separator.
EnRamaIPP ==
    /\ arg.area # None
    /\ StartsWith(arg.area[1], "Orientación vocacional")
    /\ arg.variable # None
    /\ \E i \in 1..Len(arg.variable[1]) : StartsWith(SubSeq(arg.variable[1], i, Len(arg.variable[1])), " - ")

\* C9: for a vocational area and a variable "field - facet", the description
\* is the activities sentence when the facet (trimmed, any case) starts with
\* "activ", the professions sentence when it starts with "prof", the generic
\* sentence otherwise, each naming the part before the first separator; it is
\* never a glossary description nor the fallback string.
C9_RamaVocacional ==
    (pc # "llamada" /\ EnRamaIPP) =>
        LET v == arg.variable[1]
            EsSep(i) == StartsWith(SubSeq(v, i, Len(v)), " - ")
            i == CHOOSE k \in 1..Len(v) : EsSep(k) /\ \A j \in 1..(k - 1) : ~EsSep(j)
            campo == SubSeq(v, 1, i - 1)
            faceta == Lower(Strip(SubSeq(v, i + 3, Len(v))))
        IN  /\ StartsWith(faceta, "activ") =>
                ret.info = "Interés por las actividades típicas del **" \o campo \o "**."
            /\ (~StartsWith(faceta, "activ") /\ StartsWith(faceta, "prof")) =>
                ret.info = "Interés por profesiones representativas del **" \o campo \o "**."
            /\ (~StartsWith(faceta, "activ") /\ ~StartsWith(faceta, "prof")) =>
                ret.info = "Interés relativo en el **" \o campo \o "**."
            /\ ret.info # FALLBACK
            /\ \A g \in 1..Len(VARIABLE_INFO) : ret.info # VARIABLE_INFO[g][2]

\* C9 witness: a vocational label whose normal form is an alias key was
\* described by the generic sentence.
C9_Witness ==
    /\ pc = "retorno"
    /\ arg = [area |-> Some(AREA_IPP), variable |-> Some("A - E")]
    /\ ret.info = "Interés relativo en el **A**."

\* C10: outside the IPP-R branch the description is (1) the glossary entry of
\* the alias of the normalized label, when there is one; (2) otherwise the
\* glossary entry whose key is the raw label; (3) otherwise the fallback
\* string. The fallback holds the marker "no configurada" and no glossary
\* description returned does, so the diagnostic test is true exactly in
\* case (3). (Every glossary key is one of the labels described.)
C10_OrdenFijo ==
    /\ SinDefinicion(FALLBACK)
    /\ (pc # "llamada" /\ ~EnRamaIPP) =>
        LET v == IF arg.variable = None THEN "" ELSE arg.variable[1]
            clave == normalize_var(Some(v))
            Canonicos == {ALIASES[a][2] : a \in {k \in 1..Len(ALIASES) : ALIASES[k][1] = clave}}
            PorAlias == {g \in 1..Len(VARIABLE_INFO) : VARIABLE_INFO[g][1] \in Canonicos}
            Exacto == {g \in 1..Len(VARIABLE_INFO) : VARIABLE_INFO[g][1] = v}
        IN  /\ PorAlias # {} => \E g \in PorAlias : ret.info = VARIABLE_INFO[g][2]
            /\ (PorAlias = {} /\ Exacto # {}) =>
                   \E g \in Exacto : ret.info = VARIABLE_INFO[g][2]
            /\ (PorAlias = {} /\ Exacto = {}) => ret.info = FALLBACK
            /\ pc = "diagnostico" => (ret.sin_def <=> (PorAlias = {} /\ Exacto = {}))

\* C10 witness: a label with neither alias nor glossary entry reached the
\* fallback and the diagnostic test found it.
C10_Witness ==
    /\ pc = "diagnostico"
    /\ arg = [area |-> Some("Atención (CARAS-R)"), variable |-> Some("Desconocida")]
    /\ ret = [info |-> FALLBACK, sin_def |-> TRUE]

\* C12 as stated: every key of ALIASES is its own normal form, so the entry
\* is the one the lookup of lines 356-357 finds for the key taken as a
\* label: outside the IPP-R branch the description returned is the glossary
\* entry of the key's canonical name.
C12_Original ==
    (pc = "retorno" /\ arg.variable # None /\ DictHas(ALIASES, arg.variable[1])
        /\ ~EnRamaIPP) =>
        LET k == arg.variable[1]
            canonical == DictGet(ALIASES, k)[1]
        IN  /\ normalize_var(Some(k)) = k
            /\ DictHas(VARIABLE_INFO, canonical)
                   => ret.info = DictGet(VARIABLE_INFO, canonical)[1]


-----------------------------------------------------------------------------
(* Properties of the load and of the render passes (Spec).                 *)

\* The six sheets build_long_dataset reads, with the area each is given.
HojasRequeridas == HOJAS_ESTANDAR \o << <<IPP_SHEET, AREA_IPP>> >>

\* Sheet h of the workbook, as the loader reads it.
Hoja(h) == DictGet(workbook.hojas, HojasRequeridas[h][1])[1]

\* The label that says what column k of sheet h is: under the two-row header
\* of the vocational sheet, the inner one.
EtiquetaInterna(h, k) ==
    IF HojasRequeridas[h][1] = IPP_SHEET THEN Hoja(h).columns[k][2] ELSE Hoja(h).columns[k]

\* The Variable a record of column k of sheet h carries.
NombreVariable(h, k) ==
    IF HojasRequeridas[h][1] = IPP_SHEET
    THEN Hoja(h).columns[k][1] \o " - " \o Hoja(h).columns[k][2]
    ELSE Hoja(h).columns[k]

\* The labels of the personal columns, the roster number under both
\* spellings, and of the grouping columns.
ETIQUETAS_BASE ==
    {"Numero lista", "Número lista", "NIA", "Nombre", "Apellidos", "Clase", "Sexo"}

EsColumnaDeValor(h, k) == EtiquetaInterna(h, k) \notin ETIQUETAS_BASE

\* The cell coerces to a number >= 0.
EsValida(celda) == to_numeric(celda) # None /\ to_numeric(celda)[1] >= 0

\* The load has returned the table: the state every render pass starts from.
Cargado == pc = "cargado"

\* C2: after build_long_dataset every record has a present Puntuacion >= 0,
\* and for every value column of every sheet the table holds exactly one
\* record per student row whose cell coerces to a number >= 0 (0 included),
\* with that number for its score, and none for a negative or non-numeric
\* cell; the table holds nothing but the valid records of the reshaped parts.
C2_SoloPuntuacionesValidas ==
    Cargado =>
        LET tabla == data[1]
            big == Concat(parts)
            De(h, k) == {i \in 1..Len(tabla) :
                            /\ tabla[i].Area = HojasRequeridas[h][2]
                            /\ tabla[i].Variable = NombreVariable(h, k)}
        IN  /\ \A i \in 1..Len(tabla) :
                   tabla[i].Puntuacion # None /\ tabla[i].Puntuacion[1] >= 0
            /\ \A h \in 1..Len(HojasRequeridas) : \A k \in 1..Len(Hoja(h).columns) :
                   EsColumnaDeValor(h, k) =>
                       LET filas == Hoja(h).rows
                           validas == {f \in 1..Len(filas) : EsValida(filas[f][k])}
                       IN  /\ Cardinality(De(h, k)) = Cardinality(validas)
                           /\ \A f \in validas :
                                  Cardinality({i \in De(h, k) :
                                      tabla[i].Puntuacion = to_numeric(filas[f][k])})
                                  = Cardinality({g \in validas :
                                      to_numeric(filas[g][k]) = to_numeric(filas[f][k])})
            /\ Len(tabla) = Cardinality({i \in 1..Len(big) :
                                big[i].Puntuacion # None /\ big[i].Puntuacion[1] >= 0})

\* C2 witness: a sheet whose first student scored 0 in one column and "n/a"
\* in the other was loaded; the 0 is a record, and the other column has
\* only the record of the second student.
C2_Witness ==
    /\ pc = "cargado"
    /\ Hoja(1).rows[1][Len(Hoja(1).columns) - 1] = [num |-> 0]
    /\ Hoja(1).rows[1][Len(Hoja(1).columns)] = [txt |-> "n/a"]
    /\ \E i \in 1..Len(data[1]) :
           /\ data[1][i].Variable = "Espacial"
           /\ data[1][i].Puntuacion = Some(0)
    /\ Cardinality({i \in 1..Len(data[1]) : data[1][i].Variable = "Verbal"}) = 1

\* C3: no record sheet_to_long emits for a standard sheet has for Variable
\* the label of a personal column (the roster number under either spelling,
\* NIA, Nombre, Apellidos) or of a grouping column (Clase, Sexo); the
\* Variables of the records are the labels of the sheet's value columns.
C3_SinColumnasPersonales ==
    Cargado =>
        \A h \in 1..Len(HOJAS_ESTANDAR) :
            /\ \A r \in Registros(parts[h]) : r.Variable \notin ETIQUETAS_BASE
            /\ {r.Variable : r \in Registros(parts[h])}
                   = {Hoja(h).columns[k] :
                          k \in {j \in 1..Len(Hoja(h).columns) : EsColumnaDeValor(h, j)}}

\* C3 witness: a standard sheet with the roster header "Numero lista" and
\* one with "Número lista" were reshaped into records of their two value
\* columns.
C3_Witness ==
    /\ pc = "cargado"
    /\ \E k \in 1..Len(Hoja(1).columns) : Hoja(1).columns[k] = "Numero lista"
    /\ \E k \in 1..Len(Hoja(2).columns) : Hoja(2).columns[k] = "Número lista"
    /\ {r.Variable : r \in Registros(parts[1])} = {"Espacial", "Verbal"}
    /\ {r.Variable : r \in Registros(parts[2])} = {"Numérico", "Abstracto"}

\* C4 as stated: no record ipp_sheet_to_long emits comes from a column whose
\* inner label is a personal or grouping label, the roster number under
\* both spellings: its Variable is neither that label nor the name
\* synthesized from the column's two labels.
C4_Original ==
    Cargado =>
        \A r \in Registros(parts[Len(HojasRequeridas)]) :
            /\ r.Variable \notin ETIQUETAS_BASE
            /\ \A k \in 1..Len(Hoja(Len(HojasRequeridas)).columns) :
                   r.Variable = NombreVariable(Len(HojasRequeridas), k)
                       => EsColumnaDeValor(Len(HojasRequeridas), k)

\* C5: in the loaded table, the Clase/Sexo-filtered table and the
\* Area/Variable-filtered table of every render pass, every record's Rango
\* is clasificar_percentil of that record's Puntuacion; the filtered tables
\* hold records of the loaded table only.
C5_RangoSegunPuntuacion ==
    LET Coherente(t) ==
            t # None => \A r \in Registros(t[1]) :
                            r.Rango # None /\ r.Rango = clasificar_percentil(r.Puntuacion)
        Dentro(t, u) == t # None => (u # None /\ Registros(t[1]) \subseteq Registros(u[1]))
    IN  /\ Coherente(data)
        /\ Coherente(df_filtrado)
        /\ Coherente(df_area)
        /\ Dentro(df_filtrado, data)
        /\ Dentro(df_area, df_filtrado)

\* C5 witness: a pass whose two filters each left records out, with a
\* "Medio-alto" record in the table the charts are drawn from.
C5_Witness ==
    /\ pc = "presentado"
    /\ df_area # None
    /\ Len(df_area[1]) < Len(df_filtrado[1])
    /\ Len(df_filtrado[1]) < Len(data[1])
    /\ \E r \in Registros(df_area[1]) :
           r.Rango = Some("Medio-alto") /\ r.Puntuacion = Some(70 * Resolution)

\* A required sheet is missing from the workbook, or the file does not open.
FaltaAlgo ==
    \/ ~workbook.abre
    \/ \E h \in 1..Len(HojasRequeridas) : ~DictHas(workbook.hojas, HojasRequeridas[h][1])

\* C6: when one of the six required sheets is missing or the file does not
\* open, the load ends in an error with no table, whole or partial, and no
\* filter of a render pass runs; otherwise the load raises no error, bad
\* score cells included, and the table is there.
C6_CargaFatal ==
    pc # "inicio" =>
        /\ FaltaAlgo =>
               /\ pc = "fatal"
               /\ error # ""
               /\ data = None
               /\ parts = <<>>
               /\ df_filtrado = None
               /\ df_area = None
               /\ clases_sel = {} /\ sexos_sel = {} /\ area_sel = None /\ vars_sel = {}
        /\ ~FaltaAlgo =>
               /\ pc # "fatal"
               /\ error = ""
               /\ data # None
               /\ Len(parts) = Len(HojasRequeridas)

\* C6 witness: the load of a workbook without the CARAS-R sheet ended in a
\* KeyError.
C6_Witness ==
    /\ pc = "fatal"
    /\ workbook.abre
    /\ ~DictHas(workbook.hojas, HOJAS_ESTANDAR[3][1])
    /\ error = "KeyError"
    /\ data = None

\* C13 as stated: in a pass with the default selections, every offered Clase
\* and every offered Sexo, the Clase/Sexo filter leaves no record of the
\* loaded table out, those without a Clase or a Sexo included.
C13_Original ==
    (/\ pc = "presentado"
     /\ clases_sel = Opciones(data[1], "Clase")
     /\ sexos_sel = Opciones(data[1], "Sexo"))
        => df_filtrado = data

-----------------------------------------------------------------------------
(* Properties of Table 2 (SpecRangos).                                     *)

\* The (Sexo, Variable) groups of a table of Rango rows.
GruposDe(filas) == {<<f.Sexo, f.Variable>> : f \in filas}

RECURSIVE SumaDe(_, _, _)
\* The sum of a column over the rows of group g of the bands 1..b.
SumaDe(filas, g, b) ==
    IF b = 0 THEN [n |-> 0, porcentaje |-> 0]
    ELSE LET resto == SumaDe(filas, g, b - 1)
             fila == {f \in filas : /\ <<f.Sexo, f.Variable>> = g
                                    /\ f.Rango = orden_rangos[b]}
         IN  IF fila = {} THEN resto
             ELSE LET f == CHOOSE x \in fila : TRUE
                  IN  [n |-> resto.n + f.n, porcentaje |-> resto.porcentaje + f.porcentaje]

\* C11 as stated: the reported porcentaje values of the Rango rows of every
\* (Sexo, Variable) group sum to 100% (1000 tenths), however the group's
\* records are split across the bands.
C11_Original ==
    pc = "retorno" =>
        \A g \in GruposDe(ret) : SumaDe(ret, g, Len(orden_rangos)).porcentaje = 1000

\* C11 as amended: for every (Sexo, Variable) group the counts n of its
\* Rango rows sum to the number of records of the group, and each porcentaje
\* is the share n / size * 100 rounded to the nearest tenth; so the reported
\* values sum to 100% up to the rounding only, within 0.05 per Rango row of
\* the group, and to exactly 100% when the group has one row.
C11_SumaRedondeada ==
    pc = "retorno" =>
        \A g \in GruposDe(ret) :
            LET filas == {f \in ret : <<f.Sexo, f.Variable>> = g}
                size == Cardinality({i \in 1..Len(arg) :
                                       arg[i].Sexo = Some(g[1]) /\ arg[i].Variable = g[2]})
                suma == SumaDe(ret, g, Len(orden_rangos))
                desvio == IF suma.porcentaje >= 1000 THEN suma.porcentaje - 1000
                          ELSE 1000 - suma.porcentaje
            IN  /\ suma.n = size
                /\ \A f \in filas :
                       /\ f.n > 0
                       /\ 2 * f.porcentaje * size <= 2 * f.n * 1000 + size
                       /\ 2 * f.porcentaje * size >= 2 * f.n * 1000 - size
                /\ 2 * desvio <= Cardinality(filas)
                /\ Cardinality(filas) = 1 => suma.porcentaje = 1000

\* C11 witness: a group of three records, one in each of three bands, was
\* tabulated beside another group: each row reports 33.3%.
C11_Witness ==
    /\ pc = "retorno"
    /\ Len(arg) = 5
    /\ {f.porcentaje : f \in {x \in ret : x.Sexo = "Mujeres"}} = {333}
    /\ Cardinality({x \in ret : x.Sexo = "Mujeres"}) = 3
    /\ {f.porcentaje : f \in {x \in ret : x.Sexo = "Hombres"}} = {500}

====
